---------------------------- MODULE Spec2Model ----------------------------
(***************************************************************************)
(* A model of the ThickLine add-in (src/ThickLine.cpp): the parameter      *)
(* derivation extractParams, the validator validateParams, the shape       *)
(* generation and settings persistence of the execute handler, and the     *)
(* settings codec saveSettingsIni / loadSettingsIni.                       *)
(*                                                                         *)
(* Numbers.  The program computes with C++ doubles.  The model computes    *)
(* with exact decimal numbers <<m, e>> standing for m * 10^e (m an         *)
(* integer without trailing zeros, <<0, 0>> for zero).  Sums, differences  *)
(* and products are exact; quotients and square roots are exact on the     *)
(* inputs the specifications draw (lengths whose reciprocal terminates,    *)
(* squared lengths that are perfect squares).  The rounding of a double    *)
(* in its 53-bit mantissa is not modelled; the rounding to six significant *)
(* digits that the stream output performs is.                              *)
(***************************************************************************)
EXTENDS Integers, Sequences, FiniteSets, TLC

VARIABLES
    pc,        \* position of the host: which handler ran last
    inputs,    \* the command inputs of the dialog
    unit,      \* the magnitude the user works at: sizes are n * 10^unit
    sketchOk,  \* whether an active sketch is being edited
    P,         \* the ThickLineParams record the last handler built
    ok,        \* the verdict of the last pipeline run
    err,       \* the error string of the last pipeline run
    shapes,    \* the polygons drawn into the sketch, in drawing order
    file,      \* settings.ini: its text, or Absent
    writable,  \* whether settings.ini can be opened for writing
    log,       \* the lines sent to the host's text console
    S,         \* the settings record last handed to saveSettingsIni
    loaded,    \* the settings record last returned by loadSettingsIni
    errBox,    \* the error text box of the dialog: visibility and text
    g_ErrState \* the cache of syncErrorBox: last verdict and last message

vars == <<pc, inputs, unit, sketchOk, P, ok, err, shapes, file, writable, log, S,
          loaded, errBox, g_ErrState>>

-----------------------------------------------------------------------------
(* Decimal numbers                                                         *)

Min(a, b) == IF a <= b THEN a ELSE b
Max(a, b) == IF a >= b THEN a ELSE b
Abs(n) == IF n < 0 THEN -n ELSE n

RECURSIVE Pow10(_)
Pow10(k) == IF k <= 0 THEN 1 ELSE 10 * Pow10(k - 1)

RECURSIVE NDigits(_)
\* the number of decimal digits of n > 0
NDigits(n) == IF n < 10 THEN 1 ELSE 1 + NDigits(n \div 10)

RECURSIVE DNorm(_, _)
\* the normal form of m * 10^e
DNorm(m, e) ==
    IF m = 0 THEN <<0, 0>>
    ELSE IF m % 10 = 0 THEN DNorm(m \div 10, e + 1)
    ELSE <<m, e>>

D(n) == DNorm(n, 0)
Zero == <<0, 0>>

DNeg(a) == <<-a[1], a[2]>>

DAdd(a, b) ==
    IF a[1] = 0 THEN b
    ELSE IF b[1] = 0 THEN a
    ELSE LET e == Min(a[2], b[2])
         IN  DNorm(a[1] * Pow10(a[2] - e) + b[1] * Pow10(b[2] - e), e)

DSub(a, b) == DAdd(a, DNeg(b))

DMul(a, b) == DNorm(a[1] * b[1], a[2] + b[2])

DSign(a) == IF a[1] > 0 THEN 1 ELSE IF a[1] < 0 THEN -1 ELSE 0

\* a < b for a, b > 0: by order of magnitude first, so that numbers of very
\* different size (10 against 1e-12) are compared without aligning them
MagLt(a, b) ==
    LET oa == NDigits(a[1]) + a[2]
        ob == NDigits(b[1]) + b[2]
        e  == Min(a[2], b[2])
    IN  IF oa # ob THEN oa < ob
        ELSE a[1] * Pow10(a[2] - e) < b[1] * Pow10(b[2] - e)

DLt(a, b) ==
    LET sa == DSign(a)
        sb == DSign(b)
    IN  IF sa # sb THEN sa < sb
        ELSE IF sa = 0 THEN FALSE
        ELSE IF sa > 0 THEN MagLt(a, b)
        ELSE MagLt(DNeg(b), DNeg(a))

DLe(a, b) == a = b \/ DLt(a, b)

RECURSIVE InvExp(_, _)
\* the least k with m dividing 10^k, or 9 when there is none below it
InvExp(m, k) ==
    IF k >= 9 \/ Pow10(k) % m = 0 THEN k ELSE InvExp(m, k + 1)

\* 1.0 / a for a # 0: exact when the quotient terminates within nine
\* digits, cut after nine digits otherwise
DInv(a) ==
    LET m == Abs(a[1])
        k == InvExp(m, 0)
        q == DNorm(Pow10(k) \div m, (-k) - a[2])
    IN  IF a[1] < 0 THEN DNeg(q) ELSE q

\* the integer square root
Isqrt(n) == CHOOSE r \in 0..Min(n, 46339) :
                r * r <= n /\ (r = 46339 \/ (r + 1) * (r + 1) > n)

\* std::sqrt(a) for a >= 0: exact when a is the square of a decimal number
DSqrt(a) ==
    LET odd == a[2] % 2 = 1
        m   == IF odd THEN a[1] * 10 ELSE a[1]
        e   == IF odd THEN a[2] - 1 ELSE a[2]
    IN  DNorm(Isqrt(m), e \div 2)

-----------------------------------------------------------------------------
(* 2D vectors in sketch space                                              *)

v2(x, y) == [x |-> x, y |-> y]
vadd(a, b) == v2(DAdd(a.x, b.x), DAdd(a.y, b.y))
vsub(a, b) == v2(DSub(a.x, b.x), DSub(a.y, b.y))
vscale(a, s) == v2(DMul(a.x, s), DMul(a.y, s))
vlen(a) == DSqrt(DAdd(DMul(a.x, a.x), DMul(a.y, a.y)))
vdot(a, b) == DAdd(DMul(a.x, b.x), DMul(a.y, b.y))
vperp_ccw(a) == v2(DNeg(a.y), a.x)

VZero == v2(Zero, Zero)

\* small numeric thresholds
\* a coincidence threshold ten times smaller
kEpsCoincidentTenth == <<1, -13>>
kEpsCoincident == <<1, -12>>
\* a sketch-length threshold ten times larger
kEpsSketchLenTenfold == <<1, -8>>
kEpsSketchLen == <<1, -9>>


-----------------------------------------------------------------------------
(* The host: command inputs, selections, the active sketch                 *)

Null == "null"

\* a selection input holds the sequence of its selected entities (at most
\* one: setSelectionLimits(0, 1))
NoSel == <<>>
Sel(ent) == <<ent>>

\* a file that does not exist, and a file holding a text
Absent == [exists |-> FALSE, text |-> <<>>]
FileOf(t) == [exists |-> TRUE, text |-> t]

TypeNames == {"None", "Arrow", "T"}

\* a selected entity: its kind and its point, given in sketch coordinates
\* (the sketch lies in the world XY plane, so that modelToSketchSpace keeps
\* x and y)
Entity(kind, pt) == [kind |-> kind, pt |-> pt]

\* the point of a selected entity as a sequence: <<pt>>, or empty (nullptr)
\* for an entity that is neither a sketch point, a construction point nor a
\* vertex
worldPointFromEntity(ent) ==
    IF ent.kind = "SketchPoint" THEN <<ent.pt>>
    ELSE IF ent.kind = "ConstructionPoint" THEN <<ent.pt>>
    ELSE IF ent.kind = "BRepVertex" THEN <<ent.pt>>
    ELSE <<>>

getActiveSketch(active) == IF active THEN "sketch" ELSE Null

\* the parameter bundle as constructed
DefaultParams ==
    [sketch |-> Null, A |-> VZero, B |-> VZero,
     widthCm |-> Zero, leadACm |-> Zero, leadBCm |-> Zero,
     featAType |-> "None", featAWCm |-> Zero, featALCm |-> Zero,
     featBType |-> "None", featBWCm |-> Zero, featBLCm |-> Zero,
     L |-> Zero, Ldir |-> VZero, Wdir |-> VZero,
     Aext |-> VZero, Bext |-> VZero, Abase |-> VZero, Bbase |-> VZero]

\* a failed or successful run of a pipeline stage
Outcome(o, p, e) == [ok |-> o, P |-> p, err |-> e]

MsgNoSketch == "Please edit a sketch before running this command."
MsgSelA == "Select point or entity for A."
MsgSelB == "Select point or entity for B."
MsgGeomA == "Could not read geometry for selection A. Please select a SketchPoint, ConstructionPoint, or Vertex."
MsgGeomB == "Could not read geometry for selection B. Please select a SketchPoint, ConstructionPoint, or Vertex."
MsgCoincident == "Points A and B are coincident or too close together."
MsgWidth == "Width of line must be > 0."
MsgFeatAW == "Feature A width must be >= line width."
MsgFeatAL == "Feature A length must be > 0."
MsgFeatBW == "Feature B width must be >= line width."
MsgFeatBL == "Feature B length must be > 0."
MsgConsume == "Leads and/or feature lengths consume the segment. Reduce leads/features or move A and B further apart."

\* the size of a terminator read whatever the type
FeatSizeRaw(type, value) == value

\* the size of a terminator as extractParams reads it: the input's value
\* for an active type, 0 for None
FeatSize(type, value) == IF type # "None" THEN value ELSE Zero

\* the name of the selected drop-down item, "None" without a selected item
FeatTypeOf(sel) == IF sel = Null THEN "None" ELSE sel

\* a derivation that moves the base of A outward from its tip
DeriveGeometryBaseOutward(P0, err0) ==
    LET diff == vsub(P0.B, P0.A)
        L    == vlen(diff)
        P1   == [P0 EXCEPT !.L = L]
    IN  IF DLe(L, kEpsCoincident)
        THEN Outcome(FALSE, P1, MsgCoincident)
        ELSE LET Ldir  == vscale(diff, DInv(L))
                 Aext  == vadd(P0.A, vscale(Ldir, DNeg(P0.leadACm)))
                 Bext  == vadd(P0.B, vscale(Ldir, P0.leadBCm))
             IN  Outcome(TRUE,
                         [P1 EXCEPT !.Ldir = Ldir, !.Wdir = vperp_ccw(Ldir),
                                    !.Aext = Aext, !.Bext = Bext,
                                    !.Abase = vadd(Aext, vscale(Ldir, DNeg(P0.featALCm))),
                                    !.Bbase = vadd(Bext, vscale(Ldir, DNeg(P0.featBLCm)))],
                         err0)

\* the end of extractParams: L, the directions, the tips and the bases
DeriveGeometry(P0, err0) ==
    LET diff == vsub(P0.B, P0.A)
        L    == vlen(diff)
        P1   == [P0 EXCEPT !.L = L]
    IN  IF DLe(L, kEpsCoincident)
        THEN Outcome(FALSE, P1, MsgCoincident)
        ELSE LET Ldir  == vscale(diff, DInv(L))
                 Wdir  == vperp_ccw(Ldir)
                 Aext  == vadd(P0.A, vscale(Ldir, DNeg(P0.leadACm)))
                 Bext  == vadd(P0.B, vscale(Ldir, P0.leadBCm))
                 Abase == vadd(Aext, vscale(Ldir, P0.featALCm))
                 Bbase == vadd(Bext, vscale(Ldir, DNeg(P0.featBLCm)))
             IN  Outcome(TRUE,
                         [P1 EXCEPT !.Ldir = Ldir, !.Wdir = Wdir,
                                    !.Aext = Aext, !.Bext = Bext,
                                    !.Abase = Abase, !.Bbase = Bbase],
                         err0)

\* extractParams(inputs, P, err) with the active sketch of the host
extractParams(in, active, P0, err0) ==
    LET sk == getActiveSketch(active)
        Ps == [P0 EXCEPT !.sketch = sk]
    IN  IF sk = Null THEN Outcome(FALSE, Ps, MsgNoSketch)
        ELSE
        LET tA == FeatTypeOf(in.featAType)
            tB == FeatTypeOf(in.featBType)
            Pr == [Ps EXCEPT !.widthCm = in.width,
                             !.leadACm = in.leadA,
                             !.leadBCm = in.leadB,
                             !.featAType = tA,
                             !.featBType = tB,
                             !.featAWCm = FeatSize(tA, in.featAW),
                             !.featALCm = FeatSize(tA, in.featAL),
                             !.featBWCm = FeatSize(tB, in.featBW),
                             !.featBLCm = FeatSize(tB, in.featBL)]
        IN  IF in.selA = NoSel THEN Outcome(FALSE, Pr, MsgSelA)
            ELSE IF in.selB = NoSel THEN Outcome(FALSE, Pr, MsgSelB)
            ELSE
            LET pA3 == worldPointFromEntity(in.selA[1])
                pB3 == worldPointFromEntity(in.selB[1])
            IN  IF pA3 = <<>> \/ pB3 = <<>>
                THEN Outcome(FALSE, Pr,
                             IF pA3 = <<>> THEN MsgGeomA ELSE MsgGeomB)
                ELSE DeriveGeometry([Pr EXCEPT !.A = pA3[1], !.B = pB3[1]],
                                    err0)

\* the width check applied to arrows only
FeatTooNarrowArrowOnly(type, featW, width) == type = "Arrow" /\ DLt(featW, width)

\* the check of a feature's width: an active feature narrower than the line
FeatTooNarrow(type, featW, width) == type # "None" /\ DLt(featW, width)

\* the check of a feature's length: an active feature without length
FeatNoLength(type, featL) == type # "None" /\ DLe(featL, Zero)

\* the signed length of the main segment between the feature bases
segLenSigned(Pr) == vdot(vsub(Pr.Bbase, Pr.Abase), Pr.Ldir)

Invalid(msg) == [ok |-> FALSE, err |-> msg]

\* validateParams with the coincidence check ahead of the width check
validateParamsReordered(Pr, err0) ==
    IF DLe(Pr.L, kEpsCoincident) THEN Invalid(MsgCoincident)
    ELSE IF DLe(Pr.widthCm, Zero) THEN Invalid(MsgWidth)
    ELSE IF FeatNoLength(Pr.featAType, Pr.featALCm) THEN Invalid(MsgFeatAL)
    ELSE IF FeatTooNarrow(Pr.featAType, Pr.featAWCm, Pr.widthCm)
        THEN Invalid(MsgFeatAW)
    ELSE IF FeatTooNarrow(Pr.featBType, Pr.featBWCm, Pr.widthCm)
        THEN Invalid(MsgFeatBW)
    ELSE IF FeatNoLength(Pr.featBType, Pr.featBLCm) THEN Invalid(MsgFeatBL)
    ELSE IF DLe(segLenSigned(Pr), kEpsSketchLen) THEN Invalid(MsgConsume)
    ELSE [ok |-> TRUE, err |-> err0]

\* validateParams(P, err): the verdict and the error string afterwards
validateParams(Pr, err0) ==
    IF DLe(Pr.widthCm, Zero) THEN Invalid(MsgWidth)
    ELSE IF DLe(Pr.L, kEpsCoincident) THEN Invalid(MsgCoincident)
    ELSE IF FeatTooNarrow(Pr.featAType, Pr.featAWCm, Pr.widthCm)
        THEN Invalid(MsgFeatAW)
    ELSE IF FeatNoLength(Pr.featAType, Pr.featALCm) THEN Invalid(MsgFeatAL)
    ELSE IF FeatTooNarrow(Pr.featBType, Pr.featBWCm, Pr.widthCm)
        THEN Invalid(MsgFeatBW)
    ELSE IF FeatNoLength(Pr.featBType, Pr.featBLCm) THEN Invalid(MsgFeatBL)
    ELSE IF DLe(segLenSigned(Pr), kEpsSketchLen) THEN Invalid(MsgConsume)
    ELSE [ok |-> TRUE, err |-> err0]

-----------------------------------------------------------------------------
(* Text: a std::string is the sequence of its characters                   *)

DigitChars == <<"0", "1", "2", "3", "4", "5", "6", "7", "8", "9">>
IsDigit(c) == \E i \in 1..10 : DigitChars[i] = c
DigitVal(c) == (CHOOSE i \in 1..10 : DigitChars[i] = c) - 1

RECURSIVE Digits(_)
\* the decimal digits of n >= 0
Digits(n) ==
    IF n < 10 THEN <<DigitChars[n + 1]>>
    ELSE Digits(n \div 10) \o <<DigitChars[(n % 10) + 1]>>

RECURSIVE Zeros(_)
Zeros(k) == IF k <= 0 THEN <<>> ELSE <<"0">> \o Zeros(k - 1)

\* the text of a terminator type name
Str(name) ==
    IF name = "None" THEN <<"N", "o", "n", "e">>
    ELSE IF name = "Arrow" THEN <<"A", "r", "r", "o", "w">>
    ELSE IF name = "T" THEN <<"T">>
    ELSE <<"?">>

\* the value rounded to six significant digits, ties to even, as the
\* stream's default precision prints it
Round6(a) ==
    LET m  == Abs(a[1])
        nd == NDigits(m)
    IN  IF a[1] = 0 \/ nd <= 6 THEN a
        ELSE LET p  == Pow10(nd - 6)
                 q  == m \div p
                 r  == m % p
                 up == (2 * r > p) \/ (2 * r = p /\ q % 2 = 1)
                 q1 == IF up THEN q + 1 ELSE q
                 n  == DNorm(q1, a[2] + nd - 6)
             IN  IF a[1] < 0 THEN DNeg(n) ELSE n

\* the digits ds of a rounded mantissa with the exponent e, in the %g
\* layout: scientific below 1e-4 and from 1e6 on, fixed in between
FormatDigits(ds, e) ==
    LET nd == Len(ds)
        X  == nd + e - 1
    IN  IF X < -4 \/ X >= 6
        THEN <<ds[1]>>
                \o (IF nd > 1 THEN <<".">> \o SubSeq(ds, 2, nd) ELSE <<>>)
                \o <<"e", IF X < 0 THEN "-" ELSE "+">>
                \o (IF Abs(X) < 10 THEN <<"0">> ELSE <<>>) \o Digits(Abs(X))
        ELSE IF e >= 0 THEN ds \o Zeros(e)
        ELSE IF X >= 0
        THEN SubSeq(ds, 1, nd + e) \o <<".">> \o SubSeq(ds, nd + e + 1, nd)
        ELSE <<"0", ".">> \o Zeros((-X) - 1) \o ds

\* the text of a number that has at most six significant digits
FormatRounded(r) ==
    IF r[1] = 0 THEN <<"0">>
    ELSE (IF r[1] < 0 THEN <<"-">> ELSE <<>>)
         \o FormatDigits(Digits(Abs(r[1])), r[2])

\* operator<<(double) of an ofstream in its default state (%g, precision 6)
FormatDouble(a) == FormatRounded(Round6(a))

IsSpace(c) == c \in {" ", "\t", "\n", "\r"}

RECURSIVE SkipSpace(_, _)
SkipSpace(t, i) ==
    IF i <= Len(t) /\ IsSpace(t[i]) THEN SkipSpace(t, i + 1) ELSE i

RECURSIVE DigitsEnd(_, _)
\* the first position from i on that holds no digit
DigitsEnd(t, i) ==
    IF i <= Len(t) /\ IsDigit(t[i]) THEN DigitsEnd(t, i + 1) ELSE i

RECURSIVE DigitsValue(_, _, _)
\* the number written by the digits t[i..j-1]
DigitsValue(t, i, j) ==
    IF i >= j THEN 0 ELSE DigitsValue(t, i, j - 1) * 10 + DigitVal(t[j - 1])

\* the digits of an exponent from j1 on, 0 when there are none
StodExpDigits(t, j1) == DigitsValue(t, j1, DigitsEnd(t, j1))

\* the exponent part at i3: "e" or "E", an optional sign, digits
StodExp(t, i3) ==
    IF ~(i3 <= Len(t) /\ t[i3] \in {"e", "E"}) THEN 0
    ELSE IF i3 + 1 <= Len(t) /\ t[i3 + 1] = "-" THEN -StodExpDigits(t, i3 + 2)
    ELSE IF i3 + 1 <= Len(t) /\ t[i3 + 1] = "+" THEN StodExpDigits(t, i3 + 2)
    ELSE StodExpDigits(t, i3 + 1)

\* the number with integer digits t[i1..i2-1] and, after a point at i2,
\* fraction digits up to i3-1 (i3 = i2 without a point)
StodValue(t, neg, i1, i2, i3) ==
    LET nInt == i2 - i1
        nFrc == IF i3 > i2 THEN i3 - (i2 + 1) ELSE 0
        mant == DigitsValue(t, i1, i2) * Pow10(nFrc)
                + (IF nFrc > 0 THEN DigitsValue(t, i2 + 1, i3) ELSE 0)
    IN  IF nInt + nFrc = 0 THEN [ok |-> FALSE, v |-> Zero]
        ELSE [ok |-> TRUE,
              v |-> DNorm(IF neg THEN -mant ELSE mant, StodExp(t, i3) - nFrc)]

StodFraction(t, neg, i1, i2) ==
    StodValue(t, neg, i1, i2,
              IF i2 <= Len(t) /\ t[i2] = "." THEN DigitsEnd(t, i2 + 1) ELSE i2)

StodSigned(t, i0) ==
    IF i0 <= Len(t) /\ t[i0] = "-"
    THEN StodFraction(t, TRUE, i0 + 1, DigitsEnd(t, i0 + 1))
    ELSE IF i0 <= Len(t) /\ t[i0] = "+"
    THEN StodFraction(t, FALSE, i0 + 1, DigitsEnd(t, i0 + 1))
    ELSE StodFraction(t, FALSE, i0, DigitsEnd(t, i0))

\* std::stod(value): the decimal number at the start of the text (blanks,
\* sign, digits with an optional point, optional exponent); what follows it
\* is ignored; ok is FALSE where stod throws for want of a number
stod(t) == StodSigned(t, SkipSpace(t, 1))

-----------------------------------------------------------------------------
(* Settings and their codec                                                *)

\* ThickLineSettings as constructed
DefaultSettings ==
    [width_cm |-> <<2, -1>>,
     featAType |-> Str("None"), leadA_cm |-> Zero,
     featAL_cm |-> <<5, -1>>, featAW_cm |-> <<5, -1>>,
     featBType |-> Str("None"), leadB_cm |-> Zero,
     featBL_cm |-> <<5, -1>>, featBW_cm |-> <<5, -1>>]

KeyWidth  == <<"w", "i", "d", "t", "h", "_", "c", "m">>
KeyTypeA  == <<"f", "e", "a", "t", "A", "T", "y", "p", "e">>
KeyLeadA  == <<"l", "e", "a", "d", "A", "_", "c", "m">>
KeyFeatAL == <<"f", "e", "a", "t", "A", "L", "_", "c", "m">>
KeyFeatAW == <<"f", "e", "a", "t", "A", "W", "_", "c", "m">>
KeyTypeB  == <<"f", "e", "a", "t", "B", "T", "y", "p", "e">>
KeyLeadB  == <<"l", "e", "a", "d", "B", "_", "c", "m">>
KeyFeatBL == <<"f", "e", "a", "t", "B", "L", "_", "c", "m">>
KeyFeatBW == <<"f", "e", "a", "t", "B", "W", "_", "c", "m">>

\* one line of the settings file
IniLine(key, value) == key \o <<"=">> \o value \o <<"\n">>

\* saveSettingsIni(s): whether the file was written, and the file afterwards
saveSettingsIni(s, canWrite, old) ==
    IF ~canWrite THEN [ok |-> FALSE, file |-> old]
    ELSE [ok |-> TRUE,
          file |-> FileOf(
                   IniLine(KeyWidth, FormatDouble(s.width_cm))
                \o IniLine(KeyTypeA, s.featAType)
                \o IniLine(KeyLeadA, FormatDouble(s.leadA_cm))
                \o IniLine(KeyFeatAL, FormatDouble(s.featAL_cm))
                \o IniLine(KeyFeatAW, FormatDouble(s.featAW_cm))
                \o IniLine(KeyTypeB, s.featBType)
                \o IniLine(KeyLeadB, FormatDouble(s.leadB_cm))
                \o IniLine(KeyFeatBL, FormatDouble(s.featBL_cm))
                \o IniLine(KeyFeatBW, FormatDouble(s.featBW_cm)))]

RECURSIVE Find(_, _, _)
\* the first position from i on that holds c, 0 when there is none
Find(t, c, i) ==
    IF i > Len(t) THEN 0 ELSE IF t[i] = c THEN i ELSE Find(t, c, i + 1)

\* a loop body that gives up on a value that is no number and falls back
\* to the defaults
ApplyNumberResets(s, key, n) ==
    IF ~n.ok THEN DefaultSettings
    ELSE IF key = KeyWidth THEN [s EXCEPT !.width_cm = n.v]
    ELSE IF key = KeyLeadA THEN [s EXCEPT !.leadA_cm = n.v]
    ELSE IF key = KeyLeadB THEN [s EXCEPT !.leadB_cm = n.v]
    ELSE IF key = KeyFeatAL THEN [s EXCEPT !.featAL_cm = n.v]
    ELSE IF key = KeyFeatAW THEN [s EXCEPT !.featAW_cm = n.v]
    ELSE IF key = KeyFeatBL THEN [s EXCEPT !.featBL_cm = n.v]
    ELSE IF key = KeyFeatBW THEN [s EXCEPT !.featBW_cm = n.v]
    ELSE s

\* the numeric keys of the loop of loadSettingsIni: n is what stod made of
\* the value; a value that is no number leaves s as it is
ApplyNumber(s, key, n) ==
    IF ~n.ok THEN s
    ELSE IF key = KeyWidth THEN [s EXCEPT !.width_cm = n.v]
    ELSE IF key = KeyLeadA THEN [s EXCEPT !.leadA_cm = n.v]
    ELSE IF key = KeyLeadB THEN [s EXCEPT !.leadB_cm = n.v]
    ELSE IF key = KeyFeatAL THEN [s EXCEPT !.featAL_cm = n.v]
    ELSE IF key = KeyFeatAW THEN [s EXCEPT !.featAW_cm = n.v]
    ELSE IF key = KeyFeatBL THEN [s EXCEPT !.featBL_cm = n.v]
    ELSE IF key = KeyFeatBW THEN [s EXCEPT !.featBW_cm = n.v]
    ELSE s

\* the key and the value of a line with "=" at pos
ApplyKeyValue(s, key, value) ==
    IF key = KeyTypeA THEN [s EXCEPT !.featAType = value]
    ELSE IF key = KeyTypeB THEN [s EXCEPT !.featBType = value]
    ELSE ApplyNumber(s, key, stod(value))

\* the body of the loop of loadSettingsIni: one line applied to s
ApplyLine(s, line) ==
    LET pos == Find(line, "=", 1)
    IN  IF pos = 0 THEN s
        ELSE ApplyKeyValue(s, SubSeq(line, 1, pos - 1),
                           SubSeq(line, pos + 1, Len(line)))

RECURSIVE ReadLines(_, _, _)
\* the loop of loadSettingsIni: std::getline from position i to the end
ReadLines(s, t, i) ==
    IF i > Len(t) THEN s
    ELSE LET nl   == Find(t, "\n", i)
             last == IF nl = 0 THEN Len(t) ELSE nl - 1
         IN  ReadLines(ApplyLine(s, SubSeq(t, i, last)), t, last + 2)

\* loadSettingsIni(): the defaults for a file that cannot be opened
loadSettingsIni(f) ==
    IF ~f.exists THEN DefaultSettings
    ELSE ReadLines(DefaultSettings, f.text, 1)

-----------------------------------------------------------------------------
(* Drawing                                                                 *)

\* drawThreePointRect: the rectangle the sketch builds on the edge p0-p1
\* with p3 on the opposite side; in every call p3 - p0 is perpendicular to
\* p1 - p0, so that its corners are p0, p1, p1 + (p3 - p0), p3
drawThreePointRect(sk, p0, p1, p3) ==
    IF sk = Null THEN <<>>
    ELSE <<[kind |-> "rectangle",
            pts |-> <<p0, p1, vadd(p1, vsub(p3, p0)), p3>>]>>

\* drawTriangle: the three lines a-b, b-c, c-a
drawTriangle(sk, a, b, c) ==
    IF sk = Null THEN <<>>
    ELSE <<[kind |-> "triangle", pts |-> <<a, b, c>>]>>

Half == <<5, -1>>

\* a main rectangle offset by the whole width to either side
DrawMainFullWidth(Pr) ==
    drawThreePointRect(Pr.sketch,
                       vadd(Pr.Abase, vscale(Pr.Wdir, Pr.widthCm)),
                       vadd(Pr.Bbase, vscale(Pr.Wdir, Pr.widthCm)),
                       vsub(Pr.Abase, vscale(Pr.Wdir, Pr.widthCm)))

\* the main rectangle of the execute handler
DrawMain(Pr) ==
    LET wHalf  == vscale(Pr.Wdir, DMul(Pr.widthCm, Half))
        Aplus  == vadd(Pr.Abase, wHalf)
        Aminus == vsub(Pr.Abase, wHalf)
        Bplus  == vadd(Pr.Bbase, wHalf)
    IN  drawThreePointRect(Pr.sketch, Aplus, Bplus, Aminus)

\* a feature at A whose tip is the selected point A, not the lead tip
DrawFeatATipAtA(Pr) ==
    IF Pr.featAType = "Arrow"
    THEN drawTriangle(Pr.sketch,
                      vadd(Pr.Abase, vscale(Pr.Wdir, DMul(Pr.featAWCm, Half))),
                      Pr.A,
                      vsub(Pr.Abase, vscale(Pr.Wdir, DMul(Pr.featAWCm, Half))))
    ELSE IF Pr.featAType = "T"
    THEN drawThreePointRect(Pr.sketch,
                      vadd(Pr.Abase, vscale(Pr.Wdir, DMul(Pr.featAWCm, Half))),
                      vadd(Pr.A, vscale(Pr.Wdir, DMul(Pr.featAWCm, Half))),
                      vsub(Pr.Abase, vscale(Pr.Wdir, DMul(Pr.featAWCm, Half))))
    ELSE <<>>

\* the feature at A of the execute handler
DrawFeatA(Pr) ==
    LET aSide == vscale(Pr.Wdir, DMul(Pr.featAWCm, Half))
        aL0   == vadd(Pr.Abase, aSide)
        aR0   == vadd(Pr.Abase, vscale(aSide, D(-1)))
        aL1   == vadd(aL0, vscale(Pr.Ldir, DNeg(Pr.featALCm)))
    IN  IF Pr.featAType = "Arrow" THEN drawTriangle(Pr.sketch, aL0, Pr.Aext, aR0)
        ELSE IF Pr.featAType = "T" THEN drawThreePointRect(Pr.sketch, aL0, aL1, aR0)
        ELSE <<>>

\* a feature at B drawn for arrows only
DrawFeatBArrowOnly(Pr) ==
    IF Pr.featBType = "Arrow"
    THEN drawTriangle(Pr.sketch,
                      vadd(Pr.Bbase, vscale(Pr.Wdir, DMul(Pr.featBWCm, Half))),
                      Pr.Bext,
                      vsub(Pr.Bbase, vscale(Pr.Wdir, DMul(Pr.featBWCm, Half))))
    ELSE <<>>

\* the feature at B of the execute handler
DrawFeatB(Pr) ==
    LET bSide == vscale(Pr.Wdir, DMul(Pr.featBWCm, Half))
        bL0   == vadd(Pr.Bbase, bSide)
        bR0   == vadd(Pr.Bbase, vscale(bSide, D(-1)))
        bL1   == vadd(bL0, vscale(Pr.Ldir, Pr.featBLCm))
    IN  IF Pr.featBType = "Arrow" THEN drawTriangle(Pr.sketch, bL0, Pr.Bext, bR0)
        ELSE IF Pr.featBType = "T" THEN drawThreePointRect(Pr.sketch, bL0, bL1, bR0)
        ELSE <<>>

\* the settings the execute handler saves
SettingsOf(Pr) ==
    [width_cm |-> Pr.widthCm,
     leadA_cm |-> Pr.leadACm, featAType |-> Str(Pr.featAType),
     featAL_cm |-> Pr.featALCm, featAW_cm |-> Pr.featAWCm,
     leadB_cm |-> Pr.leadBCm, featBType |-> Str(Pr.featBType),
     featBL_cm |-> Pr.featBLCm, featBW_cm |-> Pr.featBWCm]

\* a pipeline that stops at extraction and never looks at the validation
AndValidateSkipped(ex, va) == ex

\* the second operand of extractParams(...) && validateParams(...): run only
\* after a successful extraction ex
AndValidate(ex, va) == IF ~ex.ok THEN ex ELSE Outcome(va.ok, ex.P, va.err)

ThenValidate(ex) ==
    AndValidate(ex, IF ex.ok THEN validateParams(ex.P, ex.err)
                    ELSE [ok |-> FALSE, err |-> ex.err])

\* extractParams(inputs, P, err) && validateParams(P, err) on a fresh P and
\* an empty err
Pipeline(in, active) ==
    ThenValidate(extractParams(in, active, DefaultParams, ""))

\* the error box as the command-created handler adds it: hidden, no text
HiddenBox == [visible |-> FALSE, text |-> <<>>]

\* g_ErrState as constructed
InitialErrState == [lastValid |-> TRUE, lastMsg |-> ""]

\* the formatted text syncErrorBox builds around a message
ErrorText(msg) == <<"<font color='#d32f2f'>Error: ", msg, "</font>">>

\* syncErrorBox(inputs, valid, msg): the box and the cache afterwards; the
\* text is written only for a failure whose message differs from the cached
\* one
syncErrorBox(box, cache, valid, msg) ==
    [box   |-> [visible |-> ~valid,
                text |-> IF ~valid /\ cache.lastMsg # msg
                         THEN ErrorText(msg) ELSE box.text],
     cache |-> [lastValid |-> valid, lastMsg |-> msg]]

LogFailed == "[ThickLine] Command failed: "
LogSaved == "[ThickLine] Settings saved to: "

-----------------------------------------------------------------------------
(* The inputs the specifications draw                                      *)

MaxLead == 1
MaxFeatLen == 2

\* the magnitudes the user works at: centimetres, 1e-9 cm and 1e-12 cm
\* (the two thresholds of the program)
UnitCm == 0
UnitNano == -9
UnitPico == -12

Pt(u, x, y) == v2(DNorm(x, u), DNorm(y, u))

\* pairs of selected entities with readable geometry, in units of 10^u:
\* coincident points, lengths 1, 2, 5 and 10, along and across the axes
GoodPairs(u) ==
    {<<Sel(Entity("SketchPoint", Pt(u, 0, 0))), Sel(Entity("SketchPoint", Pt(u, 0, 0)))>>,
     <<Sel(Entity("SketchPoint", Pt(u, 0, 0))), Sel(Entity("SketchPoint", Pt(u, 1, 0)))>>,
     <<Sel(Entity("SketchPoint", Pt(u, 0, 0))), Sel(Entity("BRepVertex", Pt(u, 2, 0)))>>,
     <<Sel(Entity("SketchPoint", Pt(u, 0, 0))), Sel(Entity("SketchPoint", Pt(u, 10, 0)))>>,
     <<Sel(Entity("ConstructionPoint", Pt(u, 1, 0))), Sel(Entity("SketchPoint", Pt(u, 4, 4)))>>,
     <<Sel(Entity("SketchPoint", Pt(u, 0, 0))), Sel(Entity("ConstructionPoint", Pt(u, 0, -2)))>>,
     <<Sel(Entity("BRepVertex", Pt(u, 1, 0))), Sel(Entity("SketchPoint", Pt(u, 0, 0)))>>}

\* selections that are missing or whose entity has no point
BadPairs(u) ==
    {<<NoSel, Sel(Entity("SketchPoint", Pt(u, 1, 0)))>>,
     <<Sel(Entity("SketchPoint", Pt(u, 0, 0))), NoSel>>,
     <<Sel(Entity("SketchLine", Pt(u, 0, 0))), Sel(Entity("SketchPoint", Pt(u, 1, 0)))>>,
     <<Sel(Entity("SketchPoint", Pt(u, 0, 0))), Sel(Entity("SketchLine", Pt(u, 1, 0)))>>,
     <<Sel(Entity("SketchLine", Pt(u, 0, 0))), Sel(Entity("SketchLine", Pt(u, 1, 0)))>>}

\* the sizes and types the user may enter, as multiples n * 10^u
SizeSet(u, widths, leads, types, featWs, featLs) ==
    {[width |-> DNorm(w, u),
      leadA |-> DNorm(la, u), leadB |-> DNorm(lb, u),
      featAType |-> ta, featAW |-> DNorm(aw, u), featAL |-> DNorm(al, u),
      featBType |-> tb, featBW |-> DNorm(bw, u), featBL |-> DNorm(bl, u)] :
        w \in widths, la \in leads, lb \in leads,
        ta \in types, aw \in featWs, al \in featLs,
        tb \in types, bw \in featWs, bl \in featLs}

\* the host around a handler call: <<a sketch is active, settings.ini can
\* be written>>
Envs == {<<TRUE, TRUE>>, <<FALSE, TRUE>>, <<TRUE, FALSE>>}

\* the selections drawn at unit u in the environment env
PairsFor(u, env) ==
    IF u = UnitCm /\ env = <<TRUE, TRUE>>
    THEN GoodPairs(u) \cup BadPairs(u)
    ELSE GoodPairs(u)

\* the sizes drawn at unit u: every combination in centimetres with a
\* sketch and a writable file, fewer elsewhere
SizesFor(u, env) ==
    IF env # <<TRUE, TRUE>>
    THEN SizeSet(u, {0, 2}, {0}, TypeNames, {4}, {1})
    ELSE IF u = UnitCm
    THEN SizeSet(u, {0, 2}, 0..MaxLead, TypeNames, {0, 2, 4}, 0..MaxFeatLen)
    ELSE SizeSet(u, {2}, 0..MaxLead, TypeNames, {2}, 0..MaxFeatLen)

\* the environments drawn at unit u
EnvsFor(u) == IF u = UnitCm THEN Envs ELSE {<<TRUE, TRUE>>}

\* the command inputs of a dialog created from the settings s: no
\* selections, the sizes of s, the drop-down item whose name s holds
DialogFrom(s) ==
    LET item(t) == IF t = Str("None") THEN "None"
                   ELSE IF t = Str("Arrow") THEN "Arrow"
                   ELSE IF t = Str("T") THEN "T"
                   ELSE Null
    IN  [selA |-> NoSel, selB |-> NoSel, width |-> s.width_cm,
         leadA |-> s.leadA_cm, leadB |-> s.leadB_cm,
         featAType |-> item(s.featAType),
         featAW |-> s.featAW_cm, featAL |-> s.featAL_cm,
         featBType |-> item(s.featBType),
         featBW |-> s.featBW_cm, featBL |-> s.featBL_cm]

-----------------------------------------------------------------------------
(* The command: created, filled in, executed                               *)

Init ==
    /\ pc = "idle"
    /\ inputs = DialogFrom(DefaultSettings)
    /\ unit = UnitCm
    /\ sketchOk = TRUE
    /\ P = DefaultParams
    /\ ok = TRUE
    /\ err = ""
    /\ shapes = <<>>
    /\ file = Absent
    /\ writable = TRUE
    /\ log = <<>>
    /\ S = DefaultSettings
    /\ loaded = DefaultSettings
    /\ errBox = HiddenBox
    /\ g_ErrState = InitialErrState

\* ThickLineCommandCreatedEventHandler::notify: the dialog starts from the
\* loaded settings
CommandCreated ==
    /\ pc = "idle"
    /\ pc' = "dialog"
    /\ \E s \in {loadSettingsIni(file)} :
        /\ loaded' = s
        /\ inputs' = DialogFrom(s)
    /\ UNCHANGED <<unit, sketchOk, P, ok, err, shapes, file, writable, log, S>>
    /\ errBox' = HiddenBox
    /\ UNCHANGED g_ErrState

\* the user selects the two points; the host's sketch and the settings
\* file are as they will be when the dialog is confirmed
SelectPoints ==
    /\ pc = "dialog"
    /\ \E u \in {UnitCm, UnitNano, UnitPico} :
       \E env \in EnvsFor(u) :
       \E pr \in PairsFor(u, env) :
        /\ inputs' = [inputs EXCEPT !.selA = pr[1], !.selB = pr[2]]
        /\ unit' = u
        /\ sketchOk' = env[1]
        /\ writable' = env[2]
    /\ pc' = "selected"
    /\ UNCHANGED <<P, ok, err, shapes, file, log, S, loaded>>
    /\ UNCHANGED <<errBox, g_ErrState>>

\* the user enters the sizes and picks the terminator types
EnterSizes ==
    /\ pc = "selected"
    /\ \E sz \in SizesFor(unit, <<sketchOk, writable>>) :
        inputs' = [selA |-> inputs.selA, selB |-> inputs.selB] @@ sz
    /\ pc' = "ready"
    /\ UNCHANGED <<unit, sketchOk, P, ok, err, shapes, file, writable, log, S,
                   loaded>>
    /\ UNCHANGED <<errBox, g_ErrState>>

\* ThickLineCommandEventHandler::notify
Execute ==
    /\ pc = "ready"
    /\ \E r \in {Pipeline(inputs, sketchOk)} :
           /\ P' = r.P
           /\ ok' = r.ok
           /\ err' = r.err
           /\ IF ~r.ok
              THEN /\ log' = Append(log, <<LogFailed, r.err>>)
                   /\ UNCHANGED <<shapes, file, S>>
              ELSE /\ shapes' = shapes \o DrawMain(r.P) \o DrawFeatA(r.P)
                                       \o DrawFeatB(r.P)
                   /\ S' = SettingsOf(r.P)
                   /\ file' = saveSettingsIni(SettingsOf(r.P), writable, file).file
                   /\ log' = Append(log, <<LogSaved, "settings.ini">>)
    /\ pc' = "executed"
    /\ UNCHANGED <<inputs, unit, sketchOk, writable, loaded>>
    /\ UNCHANGED <<errBox, g_ErrState>>

Next == CommandCreated \/ SelectPoints \/ EnterSizes \/ Execute

Spec == Init /\ [][Next]_vars

-----------------------------------------------------------------------------
(* extractParams and validateParams as functions: applied to drawn inputs  *)
(* and to records built in any way                                         *)

MaxRecSize == 2

\* parameter records however built: widths 0..MaxRecSize, feature lengths
\* 0 and 1, L at and around the coincidence threshold, a main segment at
\* and around the length threshold, along two directions
Records ==
    {[DefaultParams EXCEPT
        !.sketch = "sketch",
        !.widthCm = D(w), !.L = l,
        !.featAType = ta, !.featAWCm = D(aw), !.featALCm = D(al),
        !.featBType = tb, !.featBWCm = D(bw), !.featBLCm = D(bl),
        !.Ldir = dir, !.Wdir = vperp_ccw(dir),
        !.Bbase = vscale(dir, d)] :
        w \in 0..MaxRecSize,
        l \in {Zero, <<1, -12>>, <<2, -12>>, D(1)},
        ta \in TypeNames, aw \in 0..MaxRecSize, al \in 0..1,
        tb \in TypeNames, bw \in 0..MaxRecSize, bl \in 0..1,
        dir \in {v2(D(1), Zero), v2(<<6, -1>>, <<8, -1>>)},
        d \in {D(-1), Zero, <<1, -9>>, <<2, -9>>, D(1)}}

InitParams ==
    /\ \/ /\ pc = "record"
          /\ P \in Records
          /\ inputs = DialogFrom(DefaultSettings)
          /\ unit = UnitCm
          /\ sketchOk = TRUE
          /\ err = "earlier"
       \/ /\ pc = "inputs"
          /\ P = DefaultParams
          /\ \E u \in {UnitCm, UnitNano, UnitPico} :
             \E pr \in GoodPairs(u) \cup BadPairs(u) :
             \E sz \in SizeSet(u, {2}, 0..1, {"None", "Arrow"}, {2}, {1}) :
                /\ unit = u
                /\ inputs = [selA |-> pr[1], selB |-> pr[2]] @@ sz
          /\ sketchOk \in BOOLEAN
          /\ err = ""
    /\ ok = TRUE
    /\ shapes = <<>>
    /\ file = Absent
    /\ writable = TRUE
    /\ log = <<>>
    /\ S = DefaultSettings
    /\ loaded = DefaultSettings
    /\ errBox = HiddenBox
    /\ g_ErrState = InitialErrState

\* extractParams applied to the inputs
ExtractRecord ==
    /\ pc = "inputs"
    /\ \E r \in {extractParams(inputs, sketchOk, P, err)} :
        /\ P' = r.P
        /\ ok' = r.ok
        /\ err' = r.err
    /\ pc' = "extracted"
    /\ UNCHANGED <<inputs, unit, sketchOk, shapes, file, writable, log, S, loaded>>
    /\ UNCHANGED <<errBox, g_ErrState>>

\* validateParams applied to a record, whether built directly or left by
\* extractParams
ValidateRecord ==
    /\ pc \in {"record", "extracted"}
    /\ \E r \in {validateParams(P, err)} :
        /\ ok' = r.ok
        /\ err' = r.err
    /\ pc' = "validated"
    /\ UNCHANGED <<inputs, unit, sketchOk, P, shapes, file, writable, log, S,
                   loaded>>
    /\ UNCHANGED <<errBox, g_ErrState>>

NextParams == ExtractRecord \/ ValidateRecord

SpecParams == InitParams /\ [][NextParams]_vars

-----------------------------------------------------------------------------
(* The checks of a parameter record, stated one by one                     *)

WidthNotPositive(r) == ~DLt(Zero, r.widthCm)
PointsCoincide(r) == ~DLt(kEpsCoincident, r.L)
ActiveA(r) == r.featAType # "None"
ActiveB(r) == r.featBType # "None"
NarrowA(r) == ActiveA(r) /\ ~DLe(r.widthCm, r.featAWCm)
NoLengthA(r) == ActiveA(r) /\ ~DLt(Zero, r.featALCm)
NarrowB(r) == ActiveB(r) /\ ~DLe(r.widthCm, r.featBWCm)
NoLengthB(r) == ActiveB(r) /\ ~DLt(Zero, r.featBLCm)
Consumed(r) == ~DLt(kEpsSketchLen, vdot(vsub(r.Bbase, r.Abase), r.Ldir))

\* the checks in the order of the list, each with its message
CheckList(r) ==
    << <<WidthNotPositive(r), MsgWidth>>,
       <<PointsCoincide(r), MsgCoincident>>,
       <<NarrowA(r), MsgFeatAW>>,
       <<NoLengthA(r), MsgFeatAL>>,
       <<NarrowB(r), MsgFeatBW>>,
       <<NoLengthB(r), MsgFeatBL>>,
       <<Consumed(r), MsgConsume>> >>

FailingChecks(r) == {i \in 1..7 : CheckList(r)[i][1]}

FirstFailing(r) == CHOOSE i \in FailingChecks(r) : \A j \in FailingChecks(r) : i <= j

ValidateStep == pc \in {"record", "extracted"} /\ pc' = "validated"

\* C1: validateParams returns invalid with the message of the first failing
\* check of the list (width, coincidence, A width, A length, B width,
\* B length, consumption), whatever later checks would fail too; when no
\* check fails it returns valid and leaves the error string as it was.
C1_FirstFailingCheck ==
    [][ValidateStep =>
        IF FailingChecks(P) = {}
        THEN ok' /\ err' = err
        ELSE ~ok' /\ err' = CheckList(P)[FirstFailing(P)][2]]_vars

\* a record failing the B length check and the consumption check, reported
\* as the B length failure
C1_Witness ==
    /\ pc = "validated"
    /\ FailingChecks(P) = {6, 7}
    /\ ~ok
    /\ err = MsgFeatBL

\* C2 as stated: an active terminator narrower than the line makes validation
\* fail with that end's "width must be >= line width" message, regardless of
\* all other parameters.
C2_AsStated ==
    pc = "validated" =>
        /\ NarrowA(P) => ~ok /\ err = MsgFeatAW
        /\ NarrowB(P) => ~ok /\ err = MsgFeatBW

\* C2: an active terminator narrower than the line always makes validation
\* fail; the message is that end's width message whenever no earlier check
\* of the list fails (line width and coincidence for A; those and A's two
\* checks for B), whatever the later checks would say.
C2_NarrowTerminator ==
    pc = "validated" =>
        /\ NarrowA(P) =>
            /\ ~ok
            /\ FailingChecks(P) \cap 1..2 = {} => err = MsgFeatAW
        /\ NarrowB(P) =>
            /\ ~ok
            /\ FailingChecks(P) \cap 1..4 = {} => err = MsgFeatBW

\* a T at B narrower than the line, on a record that also fails the later
\* checks, reported as B's width failure
C2_Witness ==
    /\ pc = "validated"
    /\ P.featBType = "T"
    /\ NarrowB(P)
    /\ FailingChecks(P) = {5, 6, 7}
    /\ ~ok
    /\ err = MsgFeatBW

\* both selections are present, readable as points, and a sketch is active
SelectionsReadable ==
    /\ sketchOk
    /\ inputs.selA # NoSel
    /\ inputs.selB # NoSel
    /\ worldPointFromEntity(inputs.selA[1]) # <<>>
    /\ worldPointFromEntity(inputs.selB[1]) # <<>>

\* |B - A|^2 of the selected points
SelectedDistSq ==
    LET a == inputs.selA[1].pt
        b == inputs.selB[1].pt
        dx == DSub(b.x, a.x)
        dy == DSub(b.y, a.y)
    IN  DAdd(DMul(dx, dx), DMul(dy, dy))

\* C4: for all A, B with |B - A| <= 1e-12, extractParams fails with the
\* coincident-points message and leaves Ldir, Wdir, Aext, Bext, Abase and
\* Bbase at their zero initial values; and validateParams applied to any
\* record with L <= 1e-12, however built, returns invalid.
C4_Coincidence ==
    /\ (pc = "extracted" /\ SelectionsReadable /\ DLe(SelectedDistSq, <<1, -24>>))
        => /\ ~ok
           /\ err = MsgCoincident
           /\ P.Ldir = VZero /\ P.Wdir = VZero
           /\ P.Aext = VZero /\ P.Bext = VZero
           /\ P.Abase = VZero /\ P.Bbase = VZero
    /\ (pc = "validated" /\ DLe(P.L, <<1, -12>>)) => ~ok

\* two distinct points exactly 1e-12 apart, with non-zero leads: extraction
\* fails as coincident and nothing is derived
C4_Witness ==
    /\ pc = "extracted"
    /\ SelectionsReadable
    /\ SelectedDistSq = <<1, -24>>
    /\ inputs.leadA # Zero
    /\ err = MsgCoincident
    /\ P.Aext = VZero

-----------------------------------------------------------------------------
(* The execute handler                                                     *)

Executed == pc = "executed"

\* extractParams or validateParams fails on the dialog's inputs
StageFails ==
    \E ex \in {extractParams(inputs, sketchOk, DefaultParams, "")} :
        ~ex.ok \/ ~validateParams(ex.P, ex.err).ok

\* C5: whenever extractParams or validateParams fails in the execute
\* handler, no shape at all is drawn and no settings are written; shapes are
\* drawn only after both have succeeded; and exactly one error string is
\* reported for the invocation.
C5_FailureIsTerminal ==
    /\ (Executed /\ StageFails) =>
        /\ shapes = <<>>
        /\ file = Absent
        /\ S = DefaultSettings
        /\ Len(log) = 1
        /\ log[1] = <<LogFailed, err>>
        /\ err \in {MsgNoSketch, MsgSelA, MsgSelB, MsgGeomA, MsgGeomB,
                    MsgCoincident, MsgWidth, MsgFeatAW, MsgFeatAL, MsgFeatBW,
                    MsgFeatBL, MsgConsume}
    /\ shapes # <<>> => Executed /\ ~StageFails

\* extraction succeeds with two active terminators and validation fails at
\* the last check: nothing is drawn or saved
C5_Witness ==
    /\ Executed
    /\ inputs.featAType = "Arrow"
    /\ inputs.featBType = "T"
    /\ err = MsgConsume
    /\ shapes = <<>>
    /\ file = Absent
    /\ Len(log) = 1

Succeeded == Executed /\ ok

BothNone == P.featAType = "None" /\ P.featBType = "None"

\* h = (widthCm/2)*Wdir
HalfWidth == vscale(P.Wdir, DMul(Half, P.widthCm))

\* the one polygon is the rectangle Abase+h, Bbase+h, Bbase-h, Abase-h with
\* short edges of length widthCm
OneMainRectangle ==
    /\ Len(shapes) = 1
    /\ shapes[1].kind = "rectangle"
    /\ shapes[1].pts = <<vadd(P.Abase, HalfWidth), vadd(P.Bbase, HalfWidth),
                         vsub(P.Bbase, HalfWidth), vsub(P.Abase, HalfWidth)>>
    /\ vlen(vsub(shapes[1].pts[3], shapes[1].pts[2])) = P.widthCm
    /\ vlen(vsub(shapes[1].pts[4], shapes[1].pts[1])) = P.widthCm

\* both long edges of the one polygon have length len
LongEdges(len) ==
    /\ vlen(vsub(shapes[1].pts[2], shapes[1].pts[1])) = len
    /\ vlen(vsub(shapes[1].pts[3], shapes[1].pts[4])) = len

\* the dialog of the example: A=(0,0), B=(10,0), width 2, leads 0, both None
ExampleLine ==
    /\ inputs.selA[1].pt = v2(Zero, Zero)
    /\ inputs.selB[1].pt = v2(D(10), Zero)
    /\ inputs.width = D(2)
    /\ inputs.leadA = Zero /\ inputs.leadB = Zero
    /\ inputs.featBType = "None"

ExampleRectangle ==
    (Succeeded /\ ExampleLine /\ inputs.featAType = "None") =>
        shapes = <<[kind |-> "rectangle",
                    pts |-> <<v2(Zero, D(1)), v2(D(10), D(1)),
                              v2(D(10), D(-1)), v2(Zero, D(-1))>>]>>

\* C6 as stated: with both terminators None a successful invocation emits
\* exactly one rectangle Abase+h, Bbase+h, Bbase-h, Abase-h with short edges
\* of length widthCm and long edges of length L - leadACm - leadBCm.
C6_AsStated ==
    (Succeeded /\ BothNone) =>
        /\ OneMainRectangle
        /\ LongEdges(DSub(DSub(P.L, P.leadACm), P.leadBCm))

\* C6: with both terminators None a successful invocation emits exactly one
\* rectangle Abase+h, Bbase+h, Bbase-h, Abase-h with short edges of length
\* widthCm and long edges of length L + leadACm + leadBCm, the distance
\* between the base points; A=(0,0), B=(10,0), width 2, leads 0 gives the
\* corners (0,1), (10,1), (10,-1), (0,-1).
C6_SingleRectangle ==
    /\ (Succeeded /\ BothNone) =>
        /\ OneMainRectangle
        /\ LongEdges(DAdd(DAdd(P.L, P.leadACm), P.leadBCm))
    /\ ExampleRectangle

\* a line along (3,4) with a lead at each end and stale terminator sizes
C6_Witness ==
    /\ Succeeded
    /\ BothNone
    /\ P.L = D(5)
    /\ P.leadACm = D(1) /\ P.leadBCm = D(1)
    /\ Len(shapes) = 1
    /\ vlen(vsub(shapes[1].pts[2], shapes[1].pts[1])) = D(7)

\* 1 for an active terminator type, 0 for None
ActiveCount(type) == IF type = "None" THEN 0 ELSE 1

\* the polygon kind of a terminator type
KindOf(type) == IF type = "Arrow" THEN "triangle" ELSE "rectangle"

CornersOf(kind) == IF kind = "triangle" THEN 3 ELSE 4

\* the position of B's polygon in the list
IndexB == 2 + ActiveCount(inputs.featAType)

\* C7: a successful invocation emits the main rectangle first and then, per
\* end in the order A, B, one triangle for Arrow, one rectangle for T and
\* nothing for None: 1 + (number of ends whose type is not None) polygons.
C7_PolygonList ==
    Succeeded =>
        /\ Len(shapes) = 1 + ActiveCount(inputs.featAType)
                           + ActiveCount(inputs.featBType)
        /\ shapes[1].kind = "rectangle"
        /\ inputs.featAType # "None" =>
               shapes[2].kind = KindOf(inputs.featAType)
        /\ inputs.featBType # "None" =>
               shapes[IndexB].kind = KindOf(inputs.featBType)
        /\ \A i \in 1..Len(shapes) :
               Len(shapes[i].pts) = CornersOf(shapes[i].kind)

\* a T at A and an arrow at B: rectangle, rectangle, triangle
C7_Witness ==
    /\ Succeeded
    /\ inputs.featAType = "T"
    /\ inputs.featBType = "Arrow"
    /\ Len(shapes) = 3
    /\ shapes[2].kind = "rectangle"
    /\ shapes[3].kind = "triangle"

\* half of a terminator's width across the line
SideA == vscale(P.Wdir, DMul(Half, P.featAWCm))
SideB == vscale(P.Wdir, DMul(Half, P.featBWCm))

\* a terminator's length along the line, pointing outward
OutA == vscale(P.Ldir, DNeg(P.featALCm))
OutB == vscale(P.Ldir, P.featBLCm)

Corners(shape) == {shape.pts[i] : i \in 1..Len(shape.pts)}

ArrowAt(shape, base, side, tip) ==
    /\ shape.kind = "triangle"
    /\ shape.pts = <<vadd(base, side), tip, vsub(base, side)>>

\* the rectangle on base +/- side and those points moved by out, whose
\* outer edge has the tip as its midpoint
TeeAt(shape, base, side, out, tip) ==
    /\ shape.kind = "rectangle"
    /\ Len(shape.pts) = 4
    /\ Corners(shape) = {vadd(base, side), vsub(base, side),
                         vadd(vadd(base, side), out),
                         vadd(vsub(base, side), out)}
    /\ vadd(tip, side) \in Corners(shape)
    /\ vsub(tip, side) \in Corners(shape)

ExampleArrow ==
    (Succeeded /\ ExampleLine /\ inputs.featAType = "Arrow"
        /\ inputs.featAW = D(4) /\ inputs.featAL = D(2)) =>
        /\ P.Abase = v2(D(2), Zero)
        /\ shapes[2].pts = <<v2(D(2), D(2)), v2(Zero, Zero), v2(D(2), D(-2))>>
        /\ shapes[1].pts = <<v2(D(2), D(1)), v2(D(10), D(1)),
                             v2(D(10), D(-1)), v2(D(2), D(-1))>>

\* C8: an Arrow at A is the triangle (Abase + (featAWCm/2)*Wdir, Aext,
\* Abase - (featAWCm/2)*Wdir); a T at A is the rectangle with corners
\* Abase +/- (featAWCm/2)*Wdir and those points moved by featALCm along
\* -Ldir, its outer edge passing through Aext; B is symmetric with +Ldir and
\* Bext. A=(0,0), B=(10,0), width 2, leads 0, Arrow at A 4 wide and 2 long
\* gives Abase=(2,0), apex (0,0), base corners (2,2), (2,-2) and a main
\* rectangle from (2,0) to (10,0).
C8_TerminatorCorners ==
    /\ Succeeded =>
        /\ P.featAType = "Arrow" => ArrowAt(shapes[2], P.Abase, SideA, P.Aext)
        /\ P.featAType = "T" => TeeAt(shapes[2], P.Abase, SideA, OutA, P.Aext)
        /\ P.featBType = "Arrow" =>
               ArrowAt(shapes[IndexB], P.Bbase, SideB, P.Bext)
        /\ P.featBType = "T" =>
               TeeAt(shapes[IndexB], P.Bbase, SideB, OutB, P.Bext)
    /\ ExampleArrow

\* the example with the arrow at A
C8_Witness ==
    /\ Succeeded
    /\ ExampleLine
    /\ inputs.featAType = "Arrow"
    /\ inputs.featAW = D(4)
    /\ inputs.featAL = D(2)
    /\ shapes[2].pts[2] = v2(Zero, Zero)

\* extractParams got as far as reading the dialog's values
InputsRead == Executed /\ sketchOk

\* extractParams succeeded
Extracted == Executed /\ SelectionsReadable /\ DLt(<<1, -24>>, SelectedDistSq)

\* C9: whenever an end's terminator type is None, extractParams sets that
\* end's terminator width and length to 0 whatever the width and length
\* inputs hold, so that Abase = Aext (resp. Bbase = Bext) and the main
\* rectangle reaches the lead tip at that end.
C9_InactiveSizesIgnored ==
    /\ (InputsRead /\ inputs.featAType = "None") =>
        /\ P.featAWCm = Zero /\ P.featALCm = Zero
        /\ Extracted => P.Abase = P.Aext
        /\ Succeeded =>
            /\ shapes[1].pts[1] = vadd(P.Aext, HalfWidth)
            /\ shapes[1].pts[4] = vsub(P.Aext, HalfWidth)
    /\ (InputsRead /\ inputs.featBType = "None") =>
        /\ P.featBWCm = Zero /\ P.featBLCm = Zero
        /\ Extracted => P.Bbase = P.Bext
        /\ Succeeded =>
            /\ shapes[1].pts[2] = vadd(P.Bext, HalfWidth)
            /\ shapes[1].pts[3] = vsub(P.Bext, HalfWidth)

\* type None at A with stale sizes 4 and 2 in the dialog and a lead of 1
C9_Witness ==
    /\ Succeeded
    /\ inputs.featAType = "None"
    /\ inputs.featAW = D(4) /\ inputs.featAL = D(2)
    /\ inputs.leadA = D(1)
    /\ P.featALCm = Zero
    /\ P.Abase = P.Aext

\* the record was derived by extractParams and passes every check before
\* the consumption check
ReachesConsumptionCheck == Extracted /\ FailingChecks(P) \cap 1..6 = {}

\* leadACm + leadBCm + featALCm + featBLCm
ConsumedSum ==
    DAdd(DAdd(P.leadACm, P.leadBCm), DAdd(P.featALCm, P.featBLCm))

\* L + leadACm + leadBCm - featALCm - featBLCm
RemainingSpan ==
    DSub(DAdd(P.L, DAdd(P.leadACm, P.leadBCm)),
         DAdd(P.featALCm, P.featBLCm))

\* C3 as stated: with the earlier checks passing, a record derived by
\* extractParams validates while leadACm + leadBCm + featALCm + featBLCm
\* does not exceed L, and fails as consumed once that sum exceeds L.
C3_AsStated ==
    ReachesConsumptionCheck =>
        /\ DLe(ConsumedSum, P.L) => ok
        /\ DLt(P.L, ConsumedSum) => ~ok /\ err = MsgConsume

\* C3: with the earlier checks passing, a record derived by extractParams
\* has dot(Bbase - Abase, Ldir) = L + leadACm + leadBCm - featALCm -
\* featBLCm; it validates exactly while that span exceeds 1e-9 and fails
\* with the "consume the segment" message exactly where it is <= 1e-9.
C3_SegmentConsumption ==
    ReachesConsumptionCheck =>
        /\ vdot(vsub(P.Bbase, P.Abase), P.Ldir) = RemainingSpan
        /\ DLt(<<1, -9>>, RemainingSpan) => ok
        /\ DLe(RemainingSpan, <<1, -9>>) => ~ok /\ err = MsgConsume

\* a segment left with exactly 1e-9 between the bases: consumed
C3_Witness ==
    /\ ReachesConsumptionCheck
    /\ P.featAType # "None"
    /\ RemainingSpan = <<1, -9>>
    /\ ~ok
    /\ err = MsgConsume

-----------------------------------------------------------------------------
(* The settings codec: a record saved and loaded back                      *)

\* numbers to save: defaults, integers, short decimals, a value printed in
\* exponent form, and values of seven significant digits
CodecValues ==
    {Zero, <<2, -1>>, <<5, -1>>, D(2), D(10), <<125, -2>>, <<1, -9>>,
     D(1000000), <<1234567, -6>>, <<1234565, -4>>}

CodecRecords ==
    {[width_cm |-> w,
      featAType |-> Str(ta), leadA_cm |-> la,
      featAL_cm |-> al, featAW_cm |-> <<5, -1>>,
      featBType |-> Str(tb), leadB_cm |-> Zero,
      featBL_cm |-> <<5, -1>>, featBW_cm |-> bw] :
        w \in CodecValues, ta \in TypeNames, tb \in TypeNames,
        la \in {Zero, <<15, -1>>}, al \in {<<5, -1>>, D(2)},
        bw \in {<<5, -1>>, <<1234567, -6>>}}

InitCodec ==
    /\ pc = "record"
    /\ S \in CodecRecords
    /\ inputs = DialogFrom(DefaultSettings)
    /\ unit = UnitCm
    /\ sketchOk = TRUE
    /\ P = DefaultParams
    /\ ok = TRUE
    /\ err = ""
    /\ shapes = <<>>
    /\ file = Absent
    /\ writable = TRUE
    /\ log = <<>>
    /\ loaded = DefaultSettings
    /\ errBox = HiddenBox
    /\ g_ErrState = InitialErrState

\* saveSettingsIni(S) on a writable settings file
SaveSettings ==
    /\ pc = "record"
    /\ \E r \in {saveSettingsIni(S, writable, file)} :
        /\ ok' = r.ok
        /\ file' = r.file
    /\ pc' = "saved"
    /\ UNCHANGED <<inputs, unit, sketchOk, P, err, shapes, writable, log, S,
                   loaded>>
    /\ UNCHANGED <<errBox, g_ErrState>>

\* loadSettingsIni() on the file saved
LoadSettings ==
    /\ pc = "saved"
    /\ loaded' = loadSettingsIni(file)
    /\ pc' = "loaded"
    /\ UNCHANGED <<inputs, unit, sketchOk, P, ok, err, shapes, file, writable,
                   log, S>>
    /\ UNCHANGED <<errBox, g_ErrState>>

NextCodec == SaveSettings \/ LoadSettings

SpecCodec == InitCodec /\ [][NextCodec]_vars

\* C10: loadSettingsIni applied to the file written by saveSettingsIni
\* returns a record equal to the original in all nine fields.
C10_RoundTrip ==
    pc = "loaded" =>
        /\ loaded.width_cm = S.width_cm
        /\ loaded.featAType = S.featAType
        /\ loaded.leadA_cm = S.leadA_cm
        /\ loaded.featAL_cm = S.featAL_cm
        /\ loaded.featAW_cm = S.featAW_cm
        /\ loaded.featBType = S.featBType
        /\ loaded.leadB_cm = S.leadB_cm
        /\ loaded.featBL_cm = S.featBL_cm
        /\ loaded.featBW_cm = S.featBW_cm

\* what does come back: every number rounded to six significant digits,
\* the two types unchanged
C10_RoundTripSixDigits ==
    pc = "loaded" =>
        /\ loaded.width_cm = Round6(S.width_cm)
        /\ loaded.featAType = S.featAType
        /\ loaded.leadA_cm = Round6(S.leadA_cm)
        /\ loaded.featAL_cm = Round6(S.featAL_cm)
        /\ loaded.featAW_cm = Round6(S.featAW_cm)
        /\ loaded.featBType = S.featBType
        /\ loaded.leadB_cm = Round6(S.leadB_cm)
        /\ loaded.featBL_cm = Round6(S.featBL_cm)
        /\ loaded.featBW_cm = Round6(S.featBW_cm)

\* a width of 1.234567 comes back as 1.23457
C10_Witness ==
    /\ pc = "loaded"
    /\ S.width_cm = <<1234567, -6>>
    /\ loaded.width_cm = <<123457, -5>>

-----------------------------------------------------------------------------
(* loadSettingsIni applied to settings files of any content                *)

MaxLines == 3

\* a line of a settings file, the field it sets ("none" for a line without
\* effect) and the value it sets it to
FileLine(text, field, value) == [text |-> text, field |-> field, value |-> value]

\* lines a settings file may hold: valid ones, a line without "=", a line
\* with an unknown key, values that are no numbers, an empty line
LinePool ==
    {FileLine(KeyWidth \o <<"=", "3">>, "width_cm", D(3)),
     FileLine(KeyLeadA \o <<"=", "1", ".", "5">>, "leadA_cm", <<15, -1>>),
     FileLine(KeyLeadA \o <<"=", "a", "b", "c">>, "none", Zero),
     FileLine(KeyTypeA \o <<"=">> \o Str("Arrow"), "featAType", Str("Arrow")),
     FileLine(KeyFeatBL \o <<"=">>, "none", Zero),
     FileLine(KeyFeatBW \o <<"=", "2">>, "featBW_cm", D(2)),
     FileLine(<<"j", "u", "n", "k">>, "none", Zero),
     FileLine(<<"f", "o", "o", "=", "7">>, "none", Zero),
     FileLine(<<>>, "none", Zero)}

\* the files of up to MaxLines lines of the pool
FileDocs == UNION {[1..n -> LinePool] : n \in 0..MaxLines}

RECURSIVE RenderDoc(_, _)
\* the text of the lines from the i-th on, each ended by a newline
RenderDoc(doc, i) ==
    IF i > Len(doc) THEN <<>>
    ELSE doc[i].text \o <<"\n">> \o RenderDoc(doc, i + 1)

InitDecode ==
    /\ pc = "text"
    /\ file \in {Absent} \cup {FileOf(RenderDoc(doc, 1)) : doc \in FileDocs}
    /\ inputs = DialogFrom(DefaultSettings)
    /\ unit = UnitCm
    /\ sketchOk = TRUE
    /\ P = DefaultParams
    /\ ok = TRUE
    /\ err = ""
    /\ shapes = <<>>
    /\ writable = TRUE
    /\ log = <<>>
    /\ S = DefaultSettings
    /\ loaded = DefaultSettings
    /\ errBox = HiddenBox
    /\ g_ErrState = InitialErrState

\* loadSettingsIni() on the file as it is
DecodeSettings ==
    /\ pc = "text"
    /\ loaded' = loadSettingsIni(file)
    /\ pc' = "decoded"
    /\ UNCHANGED <<inputs, unit, sketchOk, P, ok, err, shapes, file, writable,
                   log, S>>
    /\ UNCHANGED <<errBox, g_ErrState>>

NextDecode == DecodeSettings

SpecDecode == InitDecode /\ [][NextDecode]_vars

\* the positions of the newlines of a text
Newlines(t) == {i \in 1..Len(t) : t[i] = "\n"}

\* the k-th line of a text whose lines all end with a newline
LineAt(t, k) ==
    LET stop == CHOOSE i \in Newlines(t) :
                    Cardinality({j \in Newlines(t) : j <= i}) = k
        before == {j \in Newlines(t) : j < stop}
        start == IF before = {} THEN 1
                 ELSE 1 + CHOOSE j \in before : \A h \in before : h <= j
    IN  SubSeq(t, start, stop - 1)

\* what a line of the pool does to a record
LineEffect(s, line) ==
    LET e == CHOOSE x \in LinePool : x.text = line
    IN  IF e.field = "none" THEN s ELSE [s EXCEPT ![e.field] = e.value]

RECURSIVE LinesEffect(_, _, _)
\* the lines of a text from the k-th on, each applied on its own
LinesEffect(s, t, k) ==
    IF k > Cardinality(Newlines(t)) THEN s
    ELSE LinesEffect(LineEffect(s, LineAt(t, k)), t, k + 1)

\* C11: loadSettingsIni handles every line on its own: a line without "=",
\* a line with an unknown key and a line whose value is no number leave the
\* record as it is and the next line is read; an absent or unreadable file
\* yields the defaults.
C11_TolerantDecode ==
    pc = "decoded" =>
        IF ~file.exists THEN loaded = DefaultSettings
        ELSE loaded = LinesEffect(DefaultSettings, file.text, 1)

\* a width, an unparsable leadA_cm and a terminator width: the lead keeps
\* its default, the other two are read
C11_Witness ==
    /\ pc = "decoded"
    /\ file = FileOf(KeyWidth \o <<"=", "3", "\n">>
                     \o KeyLeadA \o <<"=", "a", "b", "c", "\n">>
                     \o KeyFeatBW \o <<"=", "2", "\n">>)
    /\ loaded = [DefaultSettings EXCEPT !.width_cm = D(3), !.featBW_cm = D(2)]
    /\ loaded.leadA_cm = Zero

-----------------------------------------------------------------------------
(* Persistence in the execute handler                                      *)

\* the invocation logged that the settings were saved
ReportsSaved == \E i \in 1..Len(log) : log[i][1] = LogSaved

\* the settings file could not be written in a successful invocation
SaveFailed == Succeeded /\ ~writable

\* the part of C12 that holds: a failed write leaves the shapes of the
\* invocation drawn, the file as it was, and the invocation completes
C12_NonFatal ==
    SaveFailed =>
        /\ Len(shapes) = 1 + ActiveCount(inputs.featAType)
                           + ActiveCount(inputs.featBType)
        /\ file = Absent
        /\ pc = "executed"

\* C12: when the settings store cannot be written during a successful
\* invocation, the shapes stay drawn, the invocation completes, and the
\* failure is reported: the invocation does not report the settings as
\* saved.
C12_FailureReported ==
    SaveFailed =>
        /\ Len(shapes) = 1 + ActiveCount(inputs.featAType)
                           + ActiveCount(inputs.featBType)
        /\ pc = "executed"
        /\ ~ReportsSaved

\* shapes drawn, nothing written, and the log says the settings were saved
C12_Witness ==
    /\ SaveFailed
    /\ inputs.featAType = "Arrow"
    /\ Len(shapes) >= 2
    /\ file = Absent
    /\ log = << <<LogSaved, "settings.ini">> >>

\* the raw parameter set of the dialog as a settings record
RawSettings ==
    [width_cm |-> inputs.width,
     featAType |-> Str(inputs.featAType), leadA_cm |-> inputs.leadA,
     featAL_cm |-> inputs.featAL, featAW_cm |-> inputs.featAW,
     featBType |-> Str(inputs.featBType), leadB_cm |-> inputs.leadB,
     featBL_cm |-> inputs.featBL, featBW_cm |-> inputs.featBW]

\* a size input as it is saved: 0 for an end whose type is None
SavedSize(type, value) == IF type = "None" THEN Zero ELSE value

\* what the handler does save: the raw parameter set with the sizes of an
\* inactive end replaced by 0
C13_SavedWithInactiveZeroed ==
    Succeeded =>
        S = [RawSettings EXCEPT
                !.featAW_cm = SavedSize(inputs.featAType, inputs.featAW),
                !.featAL_cm = SavedSize(inputs.featAType, inputs.featAL),
                !.featBW_cm = SavedSize(inputs.featBType, inputs.featBW),
                !.featBL_cm = SavedSize(inputs.featBType, inputs.featBL)]

\* C13: after every successful invocation the settings record handed to
\* the settings store equals the raw parameter set of the dialog: width,
\* both leads, both types and all four terminator sizes, also those of an
\* end whose type is None.
C13_RawInputsSaved == Succeeded => S = RawSettings

\* type None at A with 4 and 2 in its size inputs: the file is written and
\* the next dialog would start from 0 and 0
C13_Witness ==
    /\ Succeeded
    /\ writable
    /\ inputs.featAType = "None"
    /\ inputs.featAW = D(4) /\ inputs.featAL = D(2)
    /\ S.featAW_cm = Zero /\ S.featAL_cm = Zero
    /\ DialogFrom(loadSettingsIni(file)).featAW = Zero
    /\ DialogFrom(loadSettingsIni(file)).featAL = Zero

-----------------------------------------------------------------------------
(* The error box over dialogs opened, validated and closed                 *)

\* the selections the user may make in the dialog: none, one point, two
\* points apart, the same point twice, an entity that is no point
BoxPairs ==
    {<<NoSel, NoSel>>,
     <<Sel(Entity("SketchPoint", Pt(UnitCm, 0, 0))), NoSel>>,
     <<Sel(Entity("SketchPoint", Pt(UnitCm, 0, 0))),
       Sel(Entity("SketchPoint", Pt(UnitCm, 10, 0)))>>,
     <<Sel(Entity("SketchPoint", Pt(UnitCm, 0, 0))),
       Sel(Entity("SketchPoint", Pt(UnitCm, 0, 0)))>>,
     <<Sel(Entity("SketchLine", Pt(UnitCm, 0, 0))),
       Sel(Entity("SketchPoint", Pt(UnitCm, 10, 0)))>>}

\* what the user may put into the dialog: widths 0 and 2, no terminator or
\* an arrow narrower than the line
BoxInputs ==
    {[selA |-> pr[1], selB |-> pr[2]] @@ sz :
        pr \in BoxPairs,
        sz \in SizeSet(UnitCm, {0, 2}, {0}, {"None", "Arrow"}, {1}, {1})}

\* the user changes inputs of the open dialog, or the sketch is left or
\* entered
ChangeInputs ==
    /\ pc \in {"dialog", "validated"}
    /\ inputs' \in BoxInputs
    /\ sketchOk' \in BOOLEAN
    /\ pc' = "dialog"
    /\ UNCHANGED <<unit, P, ok, err, shapes, file, writable, log, S, loaded,
                   errBox, g_ErrState>>

\* ThickLineValidateInputsEventHandler::notify
ValidateInputs ==
    /\ pc \in {"dialog", "validated"}
    /\ \E r \in {Pipeline(inputs, sketchOk)} :
        /\ P' = r.P
        /\ ok' = r.ok
        /\ err' = r.err
        /\ \E b \in {syncErrorBox(errBox, g_ErrState, r.ok, r.err)} :
            /\ errBox' = b.box
            /\ g_ErrState' = b.cache
    /\ pc' = "validated"
    /\ UNCHANGED <<inputs, unit, sketchOk, shapes, file, writable, log, S,
                   loaded>>

\* the dialog is closed: its inputs and its error box are gone, the cache
\* of syncErrorBox stays
CloseDialog ==
    /\ pc \in {"dialog", "validated"}
    /\ pc' = "idle"
    /\ inputs' = DialogFrom(DefaultSettings)
    /\ errBox' = HiddenBox
    /\ UNCHANGED <<unit, sketchOk, P, ok, err, shapes, file, writable, log, S,
                   loaded, g_ErrState>>

NextErrorBox == CommandCreated \/ ChangeInputs \/ ValidateInputs \/ CloseDialog

SpecErrorBox == Init /\ [][NextErrorBox]_vars

\* the part of C14 that holds: after a validate-inputs event the box is
\* visible exactly when validation failed, and the cache holds the verdict
\* and the message of that validation
C14_VisibleIffFailed ==
    pc = "validated" =>
        /\ errBox.visible <=> ~ok
        /\ g_ErrState = [lastValid |-> ok, lastMsg |-> err]

\* C14: after each validate-inputs event the error box is visible exactly
\* when validation failed, and whenever it is visible its text is the
\* message of the most recent failed validation.
C14_ErrorBoxConsistent ==
    /\ pc = "validated" => (errBox.visible <=> ~ok)
    /\ errBox.visible => errBox.text = ErrorText(err)

\* a dialog whose first validation fails with the message the previous
\* dialog failed with last: the fresh box is shown without text
C14_Witness ==
    /\ pc = "validated"
    /\ ~ok
    /\ err = MsgSelA
    /\ errBox.visible
    /\ errBox.text = <<>>

-----------------------------------------------------------------------------
(* The order of the derived points along the line                          *)

\* the signed position of a point along Ldir
Along(p) == vdot(p, P.Ldir)

\* every corner of a polygon lies between two points along Ldir
Between(shape, lo, hi) ==
    \A i \in 1..Len(shape.pts) :
        /\ DLe(Along(lo), Along(shape.pts[i]))
        /\ DLe(Along(shape.pts[i]), Along(hi))

\* C15: for every record produced by extractParams with non-negative leads
\* and accepted by validateParams, along Ldir Aext <= A, B <= Bext and
\* Aext <= Abase < Bbase <= Bext, with Abase = Aext exactly when A's
\* terminator is None and Bbase = Bext exactly when B's is None; every
\* emitted terminator lies between its tip and the main rectangle, and the
\* main rectangle runs from Abase to Bbase.
C15_PointOrder ==
    (Succeeded /\ DLe(Zero, P.leadACm) /\ DLe(Zero, P.leadBCm)) =>
        /\ DLe(Along(P.Aext), Along(P.A))
        /\ DLe(Along(P.B), Along(P.Bext))
        /\ DLe(Along(P.Aext), Along(P.Abase))
        /\ DLt(Along(P.Abase), Along(P.Bbase))
        /\ DLe(Along(P.Bbase), Along(P.Bext))
        /\ P.Abase = P.Aext <=> P.featAType = "None"
        /\ P.Bbase = P.Bext <=> P.featBType = "None"
        /\ Between(shapes[1], P.Abase, P.Bbase)
        /\ P.featAType # "None" => Between(shapes[2], P.Aext, P.Abase)
        /\ P.featBType # "None" => Between(shapes[IndexB], P.Bbase, P.Bext)

\* an oblique line with a lead and a terminator at each end: the tips lie
\* strictly outside the selected points and the bases strictly inside the
\* tips
C15_Witness ==
    /\ Succeeded
    /\ P.L = D(5)
    /\ P.leadACm = D(1) /\ P.leadBCm = D(1)
    /\ P.featAType = "Arrow" /\ P.featBType = "T"
    /\ DLt(Along(P.Aext), Along(P.A))
    /\ DLt(Along(P.Aext), Along(P.Abase))
    /\ DLt(Along(P.Bbase), Along(P.Bext))
    /\ DLt(Along(P.B), Along(P.Bext))
    /\ Len(shapes) = 3

=============================================================================
